---- MODULE Spec2Model ----
(***************************************************************************)
(* The ServiceKeeper agent (src/src/service_keeper.rs) and the WatchTask   *)
(* long-poll loop (src/src/watcher.rs) of xbus-rs as state machines.       *)
(*                                                                         *)
(* An Option<T> is the set of its values: None is {} and Some(x) is {x}.   *)
(* A slot future is a record with a phase: "sleep" while the timer that    *)
(* precedes its request runs, "sent" once the request has been built and   *)
(* handed to the transport.  A request is built with the values captured   *)
(* when the future was created (the closure's moved values); once it is    *)
(* sent the future only awaits the answer.  An unresolved plug() future is *)
(* named by where its ack sender is: parked in replug_backs under its key, *)
(* or held by a Plug-one task for its key.  Lease ids matter only up to    *)
(* equality: the registry grants an id the keeper no longer holds.         *)
(***************************************************************************)
EXTENDS Integers, Sequences, FiniteSets, Bags, TLC

\* ------------------------------------------------------------- bounds
MaxLease == 2        \* lease ids the keeper holds at one time
MaxTasks == 1        \* Plug-one requests in flight at one time
MaxSubs == 2         \* channels handed to notify_node_online

\* ------------------------------------------------------------- values
ServiceNames == {"svcA", "svcB"}
Endpoints == {"e1", "e2"}
TTLs == {60}
Subscribers == 1 .. MaxSubs

Desc(service, zone, description) ==
    [service |-> service, zone |-> zone, description |-> description]
\* The descriptors the callers plug: one service in two zones, one key with two
\* descriptions, and a second service.
ServiceDescs ==
    {Desc("svcA", "default", "d1"), Desc("svcA", "default", "d2"),
     Desc("svcA", "z2", "d1"), Desc("svcB", "default", "d1")}
Keys == {<<d.service, d.zone>> : d \in ServiceDescs}

None == {}
Some(x) == {x}
IsSome(o) == o # {}
Unwrap(o) == CHOOSE x \in o : TRUE

KeyOf(service) == <<service.service, service.zone>>
EmptyMap == [k \in {} |-> 0]
MapInsert(m, k, v) == [x \in DOMAIN m \cup {k} |-> IF x = k THEN v ELSE m[x]]
MapRemove(m, ks) == [x \in DOMAIN m \ ks |-> m[x]]
Values(m) == {m[k] : k \in DOMAIN m}

\* ------------------------------------------------------------- errors
RequestError(code) == [type |-> "Request", code |-> code, keys |-> {}]
NotPermittedError(keys) == [type |-> "NotPermitted", code |-> "", keys |-> keys]
OtherError == [type |-> "Other", code |-> "", keys |-> {}]
IoError == [type |-> "Io", code |-> "", keys |-> {}]
OkResult == [type |-> "Ok", code |-> "", keys |-> {}]

is_timeout(e) == e.type = "Request" /\ e.code = "DEADLINE_EXCEEDED"

is_not_found(e) == e.type = "Request" /\ e.code = "NOT_FOUND"

can_retry(e) ==
    CASE e.type = "Ssl" -> FALSE
      [] e.type = "Serialize" -> FALSE
      [] e.type = "Request" ->
            e.code \in {"SYSTEM_ERROR", "TOO_MANY_ATTEMPTS", "DEADLINE_EXCEEDED", "CANCELLED"}
      [] e.type = "NotPermitted" -> FALSE
      [] e.type = "Other" -> FALSE
      [] OTHER -> TRUE

\* The failures a request can end with: a timeout, a failure that can be
\* retried, one that cannot, and for a plug the services it is refused for.
RequestErrors == {RequestError("DEADLINE_EXCEEDED"), RequestError("SYSTEM_ERROR"), OtherError}
PlugErrors == RequestErrors \cup {NotPermittedError(S) : S \in SUBSET ServiceNames}

\* What a plug future resolves with.
AckErr(e) == IF e.type = "Request" THEN e.code ELSE e.type
HasBeenPlugged == "has been plugged"
KeepTaskClosed == "keep task closed"

\* ------------------------------------------------------------- requests
GrantReq == [kind |-> "Grant"]
KeepaliveReq(lease_id) == [kind |-> "Keepalive", lease_id |-> lease_id]
RevokeReq(lease_id) == [kind |-> "RevokeLease", lease_id |-> lease_id]
ReplugAllReq(descs, endpoint, lease_id) ==
    [kind |-> "ReplugAll", services |-> descs, endpoint |-> endpoint, lease_id |-> lease_id]
PlugOneReq(service, endpoint, lease_id) ==
    [kind |-> "PlugOne", service |-> service, endpoint |-> endpoint, lease_id |-> lease_id]
UnplugReq(key, addr) == [kind |-> "UnplugService", key |-> key, addr |-> addr]

VARIABLES
    started, closing, endpoint, services, lease_result, lease_future,
    replug_future, replug_backs, lease_keep_future,   \* KeepTask's fields
    plug_tasks,      \* the bag of the keys of the spawned Plug-one requests in flight
    pc,              \* the agent's task: "running", or "exited" once poll() was Ready
    revoked,         \* history: the lease ids held that a RevokeLease was issued for
    op,              \* history: the handler that ran in the last step
    arg,             \* history: the Plug command that the last step processed, if it did
    reqs,            \* history: the requests the last step handed to the transport
    resolved,        \* history: the plug() futures the last step resolved, and with what
    done,            \* history: what the last step did with the done sender of clear()
                     \* or close(): "none" (no such sender), "spawned" (moved into the
                     \* task of the RevokeLease request), "sent" or "dropped"
    dropped,         \* history: the kinds of the slot futures the last step dropped
    is_first_online, online_notifiers,                \* KeepTask's fields
    rx_dropped,      \* the subscribers whose receiver has been dropped
    notified,        \* history: the values the last step sent to subscribers
    was_online,      \* history: a Grant has succeeded with new_app_node Some(true)
    cmd_rx,          \* the commands sent on the channel and not yet received
    polling,         \* where the agent is in poll(): "cmds" in the receive loop (or
                     \* between two polls), "futures" in process_futures
    keeper,          \* the caller still has the ServiceKeeper (and its cmd_tx)
    last_revision, watch_future, close_rx, tx_open,   \* WatchTask's fields
    wpc,             \* where the WatchTask is in poll(): "close", "watch", "done"
    delivered,       \* the revisions of the values the receiver was sent, in order
    produced,        \* history: the revisions of the values the closure's futures
                     \* ended with, in order
    polled,          \* history: the request whose end the last step handled, with
                     \* what the transport ended it with and what the closure's
                     \* future made of that
    wop              \* history: the arm of WatchTask::poll that ran in the last step

kvars == <<started, closing, endpoint, services, lease_result, lease_future,
           replug_future, replug_backs, lease_keep_future,
           plug_tasks, pc, revoked, op, arg, reqs, resolved, done, dropped,
           is_first_online, online_notifiers, rx_dropped, notified, was_online,
           cmd_rx, polling, keeper>>
qvars == <<cmd_rx, polling, keeper>>
wvars == <<last_revision, watch_future, close_rx, tx_open, wpc, delivered, produced,
           polled, wop>>
vars == <<kvars, wvars>>

\* The agent's state and what its handlers act on, as one record.
Self ==
    [started |-> started, closing |-> closing, endpoint |-> endpoint,
     services |-> services, lease_result |-> lease_result,
     lease_future |-> lease_future, replug_future |-> replug_future,
     replug_backs |-> replug_backs, lease_keep_future |-> lease_keep_future,
     plug_tasks |-> plug_tasks, revoked |-> revoked, reqs |-> {}, resolved |-> {},
     done |-> "none", dropped |-> {}, is_first_online |-> is_first_online,
     online_notifiers |-> online_notifiers, rx_dropped |-> rx_dropped,
     notified |-> {}, was_online |-> was_online]

\* The lease ids the keeper holds: of its lease, and those captured by the
\* Keepalive and Replug-all that wait for their timers.
HeldLeases(s) ==
    {l.lease_id : l \in s.lease_result}
    \cup {f.lease_id : f \in {g \in s.lease_keep_future : g.phase = "sleep"}}
    \cup {f.req.lease_id : f \in {g \in s.replug_future : g.phase = "sleep"}}

Turn(s) ==
    /\ resolved' = s.resolved
    /\ reqs' = s.reqs
    /\ services' = s.services
    /\ replug_backs' = s.replug_backs
    /\ plug_tasks' = s.plug_tasks
    /\ started' = s.started
    /\ closing' = s.closing
    /\ endpoint' = s.endpoint
    /\ lease_result' = s.lease_result
    /\ lease_future' = s.lease_future
    /\ replug_future' = s.replug_future
    /\ lease_keep_future' = s.lease_keep_future
    /\ revoked' = s.revoked \cap HeldLeases(s)
    /\ done' = s.done
    /\ dropped' = s.dropped
    /\ is_first_online' = s.is_first_online
    /\ online_notifiers' = s.online_notifiers
    /\ rx_dropped' = s.rx_dropped
    /\ notified' = s.notified
    /\ was_online' = s.was_online
    /\ UNCHANGED wvars

\* A step that leaves the channel and the place in poll() as they are.
Become(s) == Turn(s) /\ UNCHANGED qvars

\* oneshot::Sender::send on ack channel tx, and the drop of an unused sender.
\* The receiver of a dropped sender ends Canceled, which plug_replaceable maps
\* to "keep task closed".
\* An ack sender tx is [from |-> "plug" | "parked" | "task", key |-> its key].
Ack(from, key) == [from |-> from, key |-> key]
AckSend(s, tx, result) == [s EXCEPT !.resolved = @ \cup {[tx |-> tx, result |-> result]}]
AckDrop(s, txs) ==
    [s EXCEPT !.resolved = @ \cup {[tx |-> tx, result |-> KeepTaskClosed] : tx \in txs}]
Parked(s, keys) == {Ack("parked", k) : k \in keys \cap s.replug_backs}

\* history, on a Grant: the handler that asked for it first (the Grant made
\* again after a failure keeps it), and the endpoint that handler left.
NoCause == [by |-> "", endpoint |-> ""]
Caused(s, by) ==
    [s EXCEPT !.lease_future =
        {[f EXCEPT !.cause = [by |-> by, endpoint |-> s.endpoint]] : f \in @}]

\* ------------------------------------------------------------- KeepTask
\* A slot is assigned: the future it held, if it held one, is dropped.
Slot(s, kind) ==
    CASE kind = "Grant" -> s.lease_future
      [] kind = "ReplugAll" -> s.replug_future
      [] kind = "Keepalive" -> s.lease_keep_future
DropFutures(s, kinds) ==
    [s EXCEPT !.dropped = @ \cup {kind \in kinds : IsSome(Slot(s, kind))}]

\* A faulty variant, for the sensitivity of the properties: the Grant that
\* the slot holds is kept beside the new one.
new_lease_keep(s, delay_new) ==
    [s EXCEPT !.lease_future =
                  @ \cup {[phase |-> IF delay_new THEN "sleep" ELSE "sent",
                           cause |-> IF IsSome(s.lease_future)
                                     THEN Unwrap(s.lease_future).cause ELSE NoCause]},
              !.reqs = IF delay_new THEN @ ELSE @ \cup {GrantReq},
              !.lease_keep_future = None,
              !.lease_result = None,
              !.replug_future = None]

\* A faulty variant: the Replug-all of the lease given up stays in its slot.
new_lease_replug(s, delay_new) ==
    [DropFutures(s, {"Grant", "Keepalive"}) EXCEPT !.lease_future =
                  Some([phase |-> IF delay_new THEN "sleep" ELSE "sent",
                        cause |-> IF IsSome(s.lease_future)
                                  THEN Unwrap(s.lease_future).cause ELSE NoCause]),
              !.reqs = IF delay_new THEN @ ELSE @ \cup {GrantReq},
              !.lease_keep_future = None,
              !.lease_result = None]

new_lease(s, delay_new) ==
    [DropFutures(s, {"Grant", "Keepalive", "ReplugAll"}) EXCEPT !.lease_future =
                  Some([phase |-> IF delay_new THEN "sleep" ELSE "sent",
                        cause |-> IF IsSome(s.lease_future)
                                  THEN Unwrap(s.lease_future).cause ELSE NoCause]),
              !.reqs = IF delay_new THEN @ ELSE @ \cup {GrantReq},
              !.lease_keep_future = None,
              !.lease_result = None,
              !.replug_future = None]

keep_lease(s) ==
    LET s0 == DropFutures(s, {"Keepalive"}) IN
    IF IsSome(s.lease_result)
    THEN [s0 EXCEPT !.lease_keep_future =
              Some([phase |-> "sleep", lease_id |-> Unwrap(s.lease_result).lease_id])]
    ELSE [s0 EXCEPT !.lease_keep_future = None]

replug_all(s, delay_plug) ==
    LET s0 == [DropFutures(s, {"ReplugAll"}) EXCEPT !.replug_future = None] IN
    IF IsSome(s.lease_result) /\ DOMAIN s.services # {}
    THEN LET req == ReplugAllReq(Values(s.services), s.endpoint,
                                 Unwrap(s.lease_result).lease_id) IN
         IF delay_plug
         THEN [s0 EXCEPT !.replug_future =
                             Some([phase |-> "sleep", req |-> req, unplugged |-> {}])]
         ELSE [s0 EXCEPT !.replug_future = Some([phase |-> "sent"]),
                         !.reqs = @ \cup {req}]
    ELSE s0

plug_one(s, service, tx) ==
    IF IsSome(s.lease_result)
    THEN LET req == PlugOneReq(service, s.endpoint, Unwrap(s.lease_result).lease_id) IN
         [s EXCEPT !.plug_tasks = @ (+) SetToBag({KeyOf(service)}),
                   !.reqs = @ \cup {req}]
    ELSE AckDrop(s, {tx})

\* The done sender tx is moved into the spawned task, which sends () when the
\* request has ended; with no lease tx is dropped as revoke_lease returns.
revoke_lease(s) ==
    IF IsSome(s.lease_result)
    THEN LET lease_id == Unwrap(s.lease_result).lease_id IN
         [s EXCEPT !.reqs = @ \cup {RevokeReq(lease_id)},
                   !.revoked = @ \cup {lease_id},
                   !.done = "spawned"]
    ELSE [s EXCEPT !.done = "dropped"]

\* A faulty variant, for the sensitivity of the properties: started is not
\* looked at.
cmd_start_again(s) ==
    LET s1 == [s EXCEPT !.started = TRUE] IN
    IF ~IsSome(s1.lease_result)
    THEN IF ~IsSome(s1.lease_future) THEN Caused(new_lease(s1, FALSE), "Start") ELSE s1
    ELSE replug_all(s1, FALSE)

cmd_start(s) ==
    IF ~s.started
    THEN LET s1 == [s EXCEPT !.started = TRUE] IN
         IF ~IsSome(s1.lease_result)
         THEN IF ~IsSome(s1.lease_future) THEN Caused(new_lease(s1, FALSE), "Start") ELSE s1
         ELSE replug_all(s1, FALSE)
    ELSE s

\* A faulty variant, for the sensitivity of the properties: the lease is
\* revoked before the new Grant.
cmd_update_endpoint_revoke(s, e) ==
    LET s1 == [s EXCEPT !.endpoint = e] IN
    IF DOMAIN s1.services # {} /\ s1.started
    THEN Caused(new_lease(revoke_lease(s1), FALSE), "UpdateEndpoint") ELSE s1

cmd_update_endpoint(s, e) ==
    LET s1 == [s EXCEPT !.endpoint = e] IN
    IF DOMAIN s1.services # {} /\ s1.started
    THEN Caused(new_lease(s1, FALSE), "UpdateEndpoint") ELSE s1

\* HashMap::insert into replug_backs: a sender it replaces is dropped.
park(s, key, tx) ==
    [AckDrop(s, Parked(s, {key})) EXCEPT !.replug_backs = @ \cup {key}]

\* history, on a Replug-all that waits for its retry delay: the keys of its
\* captured descriptors that were unplugged since, and not plugged again.
Unplugged(f, key) ==
    IF f.phase = "sleep" /\ key \in {KeyOf(d) : d \in f.req.services}
    THEN [f EXCEPT !.unplugged = @ \cup {key}] ELSE f
Replugged(f, key) ==
    IF f.phase = "sleep" THEN [f EXCEPT !.unplugged = @ \ {key}] ELSE f

\* A faulty variant: a refused Plug still stores its descriptor.
cmd_plug_overwrite(s, service, tx, replaceable) ==
    LET key == KeyOf(service)
        s0 == [s EXCEPT !.replug_future = {Replugged(f, key) : f \in @}]
    IN
    IF key \in DOMAIN s.services /\ ~replaceable
    THEN AckSend([s EXCEPT !.services = MapInsert(@, key, service)], tx, HasBeenPlugged)
    ELSE LET s1 == [s0 EXCEPT !.services = MapInsert(@, key, service)] IN
         IF s1.started
         THEN IF IsSome(s1.lease_result)
              THEN plug_one(s1, service, tx)
              ELSE LET s2 == park(s1, key, tx) IN
                   IF ~IsSome(s2.lease_future)
                   THEN Caused(new_lease(s2, FALSE), "Plug") ELSE s2
         ELSE park(s1, key, tx)

cmd_plug(s, service, tx, replaceable) ==
    LET key == KeyOf(service)
        s0 == [s EXCEPT !.replug_future = {Replugged(f, key) : f \in @}]
    IN
    IF key \in DOMAIN s.services /\ ~replaceable
    THEN AckSend(s, tx, HasBeenPlugged)
    ELSE LET s1 == [s0 EXCEPT !.services = MapInsert(@, key, service)] IN
         IF s1.started
         THEN IF IsSome(s1.lease_result)
              THEN plug_one(s1, service, tx)
              ELSE LET s2 == park(s1, key, tx) IN
                   IF ~IsSome(s2.lease_future)
                   THEN Caused(new_lease(s2, FALSE), "Plug") ELSE s2
         ELSE park(s1, key, tx)

\* A faulty variant: the parked ack of the key is left in replug_backs.
cmd_unplug_keep_ack(s, key) ==
    LET s2 == [s EXCEPT !.services = MapRemove(@, {key}),
                        !.replug_future = {Unplugged(f, key) : f \in @}]
    IN  IF key \in DOMAIN s.services /\ s.started
        THEN [s2 EXCEPT !.reqs = @ \cup {UnplugReq(key, s.endpoint)}]
        ELSE s2

\* A faulty variant: UnplugService is issued whether or not the keeper started.
cmd_unplug_always(s, key) ==
    LET s1 == [AckDrop(s, Parked(s, {key})) EXCEPT !.replug_backs = @ \ {key}]
        s2 == [s1 EXCEPT !.services = MapRemove(@, {key}),
                         !.replug_future = {Unplugged(f, key) : f \in @}]
    IN  IF key \in DOMAIN s.services
        THEN [s2 EXCEPT !.reqs = @ \cup {UnplugReq(key, s.endpoint)}]
        ELSE s2

\* A faulty variant: the Plug-one requests of the key in flight are cancelled.
cmd_unplug_cancel(s, key) ==
    LET s1 == [AckDrop(s, Parked(s, {key})) EXCEPT !.replug_backs = @ \ {key}]
        s2 == [s1 EXCEPT !.services = MapRemove(@, {key}),
                         !.replug_future = {Unplugged(f, key) : f \in @},
                         !.plug_tasks = @ (-) SetToBag({key})]
    IN  IF key \in DOMAIN s.services /\ s.started
        THEN [s2 EXCEPT !.reqs = @ \cup {UnplugReq(key, s.endpoint)}]
        ELSE s2

cmd_unplug(s, key) ==
    LET s1 == [AckDrop(s, Parked(s, {key})) EXCEPT !.replug_backs = @ \ {key}]
        s2 == [s1 EXCEPT !.services = MapRemove(@, {key}),
                         !.replug_future = {Unplugged(f, key) : f \in @}]
    IN  IF key \in DOMAIN s.services /\ s.started
        THEN [s2 EXCEPT !.reqs = @ \cup {UnplugReq(key, s.endpoint)}]
        ELSE s2

cmd_cancel(s, key) ==
    [AckDrop(s, Parked(s, {key})) EXCEPT !.services = MapRemove(@, {key}),
                                         !.replug_backs = @ \ {key}]

\* A faulty variant, for the sensitivity of the properties: the Replug-all is
\* left in its slot.
cmd_clear_keep_replug(s) ==
    LET s1 == revoke_lease(s) IN
    [AckDrop(s1, Parked(s, Keys)) EXCEPT !.lease_keep_future = None,
                                         !.replug_backs = {},
                                         !.services = EmptyMap]

cmd_clear(s) ==
    LET s1 == DropFutures(revoke_lease(s), {"Keepalive", "ReplugAll"}) IN
    [AckDrop(s1, Parked(s, Keys)) EXCEPT !.lease_keep_future = None,
                                         !.replug_future = None,
                                         !.replug_backs = {},
                                         !.services = EmptyMap]

cmd_notify_node_online(s, tx) == [s EXCEPT !.online_notifiers = @ \cup {tx}]

cmd_revoke_and_close(s) ==
    [revoke_lease(s) EXCEPT !.closing = TRUE]

\* poll() returns Ready(()) and the runtime drops the task: the parked senders
\* are dropped with it.  The fields of the
\* dropped task are shown with their empty values.
task_dropped(s) ==
    [AckDrop(DropFutures(s, {"Grant", "Keepalive", "ReplugAll"}), Parked(s, Keys)) EXCEPT
        !.lease_future = None, !.replug_future = None, !.lease_keep_future = None,
        !.lease_result = None, !.replug_backs = {}, !.services = EmptyMap,
        !.online_notifiers = {}]

\* process_futures, one arm per completion.
\* The subscribers are sent is_first_online; retain drops those whose receiver
\* is gone, for which unbounded_send fails.
\* A faulty variant: the flag is not reset.
notify_online_again(s, result) ==
    IF result.new_app_node = Some(TRUE)
    THEN [s EXCEPT !.notified = {[tx |-> tx, value |-> s.is_first_online] :
                                    tx \in s.online_notifiers \ s.rx_dropped},
                   !.online_notifiers = @ \ s.rx_dropped]
    ELSE s

notify_online(s, result) ==
    IF result.new_app_node = Some(TRUE)
    THEN [s EXCEPT !.notified = {[tx |-> tx, value |-> s.is_first_online] :
                                    tx \in s.online_notifiers \ s.rx_dropped},
                   !.online_notifiers = @ \ s.rx_dropped,
                   !.is_first_online = FALSE]
    ELSE s

\* A faulty variant: the parked acks are fulfilled when the lease is granted.
grant_ok_acks(s, result) ==
    LET s0 == notify_online(s, result)
        s1 == [s0 EXCEPT !.lease_future = None, !.lease_result = Some(result),
                        !.replug_backs = {},
                        !.resolved = @ \cup {[tx |-> tx, result |-> "Ok"] :
                                                 tx \in Parked(s0, Keys)}]
    IN  replug_all(keep_lease(s1), FALSE)

grant_ok(s, result) ==
    LET s0 == DropFutures(notify_online(s, result), {"Grant"})
        s1 == [s0 EXCEPT !.lease_future = None, !.lease_result = Some(result)]
    IN  replug_all(keep_lease(s1), FALSE)

grant_err(s, e) == new_lease(s, ~is_timeout(e))

\* A faulty variant: the lease id of the answer is not looked at.
replug_ok_same_lease(s, result) ==
    [DropFutures(s, {"ReplugAll"}) EXCEPT !.replug_future = None,
                        !.replug_backs = {},
                        !.resolved = @ \cup {[tx |-> tx, result |-> "Ok"] :
                                                 tx \in Parked(s, Keys)}]

replug_ok(s, result) ==
    LET s1 == [DropFutures(s, {"ReplugAll"}) EXCEPT !.replug_future = None,
                        !.replug_backs = {},
                        !.resolved = @ \cup {[tx |-> tx, result |-> "Ok"] :
                                                 tx \in Parked(s, Keys)}]
    IN  IF IsSome(s1.lease_result) /\ Unwrap(s1.lease_result).lease_id # result.lease_id
        THEN [s1 EXCEPT !.lease_result =
                  Some([Unwrap(s1.lease_result) EXCEPT !.lease_id = result.lease_id])]
        ELSE s1

\* A faulty variant: only the default zone of a refused service is dropped.
replug_not_permitted_zone(s, set) ==
    LET gone == {k \in DOMAIN s.services : k[1] \in set /\ k[2] = "default"}
        keys == {k \in s.replug_backs : k[1] \in set /\ k[2] = "default"}
        s1 == [s EXCEPT !.services = MapRemove(@, gone),
                        !.replug_backs = @ \ keys,
                        !.resolved = @ \cup {[tx |-> Ack("parked", k),
                                                result |-> AckErr(NotPermittedError({k[1]}))] :
                                                 k \in keys}]
    IN  replug_all(s1, FALSE)

\* A faulty variant: the Replug-all after a refusal waits for the retry delay.
replug_not_permitted_delayed(s, set) ==
    LET gone == {k \in DOMAIN s.services : k[1] \in set}
        keys == {k \in s.replug_backs : k[1] \in set}
        s1 == [s EXCEPT !.services = MapRemove(@, gone),
                        !.replug_backs = @ \ keys,
                        !.resolved = @ \cup {[tx |-> Ack("parked", k),
                                                result |-> AckErr(NotPermittedError({k[1]}))] :
                                                 k \in keys}]
    IN  replug_all(s1, TRUE)

\* A faulty variant: the parked acks of the refused services are left.
replug_not_permitted_parked(s, set) ==
    LET gone == {k \in DOMAIN s.services : k[1] \in set}
    IN  replug_all([s EXCEPT !.services = MapRemove(@, gone)], FALSE)

replug_not_permitted(s, set) ==
    LET gone == {k \in DOMAIN s.services : k[1] \in set}
        keys == {k \in s.replug_backs : k[1] \in set}
        s1 == [s EXCEPT !.services = MapRemove(@, gone),
                        !.replug_backs = @ \ keys,
                        !.resolved = @ \cup {[tx |-> Ack("parked", k),
                                                result |-> AckErr(NotPermittedError({k[1]}))] :
                                                 k \in keys}]
    IN  replug_all(s1, FALSE)

replug_err(s, e) ==
    IF e.type = "NotPermitted"
    THEN replug_not_permitted(s, e.keys)
    ELSE replug_all(s, ~is_timeout(e))

keep_ok(s) == keep_lease(s)

\* A faulty variant: the Grant after a failed Keepalive waits for the retry delay.
keep_err_delayed(s, e) ==
    IF is_timeout(e) THEN keep_lease(s) ELSE Caused(new_lease(s, TRUE), "Keepalive")

keep_err(s, e) ==
    IF is_timeout(e) THEN keep_lease(s) ELSE Caused(new_lease(s, FALSE), "Keepalive")

\* The spawned Plug-one request ends.  On a failure that cannot be retried the
\* task builds cmd_tx.send(Cmd::Cancel(..)) and drops it: SinkExt::send is a
\* future, which enqueues only when polled, so no command reaches the channel.
\* A faulty variant: a failed registration is removed whatever the error.
plug_one_done_cancel(s, key, r) ==
    LET s1 == [s EXCEPT !.plug_tasks = @ (-) SetToBag({key})] IN
    IF r = OkResult THEN AckSend(s1, Ack("task", key), "Ok")
    ELSE AckSend([s1 EXCEPT !.services = MapRemove(@, {key}),
                            !.replug_backs = @ \ {key}],
                 Ack("task", key), AckErr(r))

plug_one_done(s, key, r) ==
    LET s1 == [s EXCEPT !.plug_tasks = @ (-) SetToBag({key})] IN
    IF r = OkResult THEN AckSend(s1, Ack("task", key), "Ok")
    ELSE AckSend(s1, Ack("task", key), AckErr(r))

\* ------------------------------------------------------------- commands
\* A method of ServiceKeeper sends its command on the unbounded channel and
\* the receive loop of KeepTask::poll hands it to process_cmd.  Nothing the
\* agent does in between reads the channel, so the send is taken together with
\* the receive: a step is one command, sent and processed.

InFlight == BagCardinality(plug_tasks)

Process(name) ==
    /\ pc = "running"
    /\ op' = name
    /\ UNCHANGED pc

NoPlug == arg' = None
PlugCmd(service, replaceable) == [service |-> service, replaceable |-> replaceable]

Start ==
    /\ Process("Start") /\ NoPlug
    /\ Become(cmd_start(Self))

UpdateEndpoint(e) ==
    /\ Process("UpdateEndpoint") /\ NoPlug
    /\ Become(cmd_update_endpoint(Self, e))

PlugReplaceable(service, replaceable) ==
    /\ Process("Plug")
    /\ arg' = Some(PlugCmd(service, replaceable))
    /\ IsSome(lease_result) /\ started => InFlight < MaxTasks
    /\ Become(cmd_plug(Self, service, Ack("plug", KeyOf(service)), replaceable))

Unplug(key) ==
    /\ Process("Unplug") /\ NoPlug
    /\ Become(cmd_unplug(Self, key))

Clear ==
    /\ Process("Clear") /\ NoPlug
    /\ Become(cmd_clear(Self))

\* A channel is handed over once.
NotifyNodeOnline(tx) ==
    /\ Process("NotifyNodeOnline") /\ NoPlug
    /\ tx \notin online_notifiers \cup rx_dropped
    /\ Become(cmd_notify_node_online(Self, tx))

\* A subscriber drops the receiver of its channel.
DropSubscriber(tx) ==
    /\ tx \in online_notifiers \ rx_dropped
    /\ op' = "DropSubscriber" /\ NoPlug
    /\ UNCHANGED pc
    /\ Become([Self EXCEPT !.rx_dropped = @ \cup {tx}])

\* RevokeAndClose sets closing: the receive loop ends, poll() returns Ready(())
\* and the task is dropped.
Close ==
    /\ pc = "running"
    /\ Become(task_dropped(cmd_revoke_and_close(Self)))
    /\ pc' = "exited"
    /\ op' = "RevokeAndClose"
    /\ NoPlug

\* plug() once the task is gone: unbounded_send fails and the future is an error.
PlugClosed(service) ==
    /\ pc = "exited"
    /\ resolved' = {[tx |-> Ack("plug", KeyOf(service)), result |-> KeepTaskClosed]}
    /\ op' = "PlugClosed"
    /\ NoPlug
    /\ done' = "none"
    /\ reqs' = {}
    /\ UNCHANGED <<started, closing, endpoint, services, lease_result, lease_future,
                   replug_future, replug_backs, lease_keep_future, plug_tasks,
                   pc, revoked, is_first_online, online_notifiers, rx_dropped,
                   was_online, cmd_rx, polling, keeper>>
    /\ notified' = {}
    /\ dropped' = {}
    /\ UNCHANGED wvars

\* clear() or close() once the task is gone: unbounded_send fails and the
\* method sends () on the done sender itself.
DoneClosed(name) ==
    /\ pc = "exited"
    /\ done' = "sent"
    /\ op' = name
    /\ NoPlug
    /\ resolved' = {}
    /\ reqs' = {}
    /\ UNCHANGED <<started, closing, endpoint, services, lease_result, lease_future,
                   replug_future, replug_backs, lease_keep_future, plug_tasks,
                   pc, revoked, is_first_online, online_notifiers, rx_dropped,
                   was_online, cmd_rx, polling, keeper>>
    /\ notified' = {}
    /\ dropped' = {}
    /\ UNCHANGED wvars

ClearClosed == DoneClosed("ClearClosed")

CloseClosed == DoneClosed("CloseClosed")

\* ------------------------------------------------------------- process_futures
Handle(name) ==
    /\ pc = "running"
    /\ op' = name
    /\ NoPlug
    /\ UNCHANGED pc

Sent(slot) == IsSome(slot) /\ Unwrap(slot).phase = "sent"
Sleeping(slot) == IsSome(slot) /\ Unwrap(slot).phase = "sleep"

\* The sleep before a delayed request ends: the request is built and sent.
GrantDelayElapsed ==
    /\ Handle("GrantDelay")
    /\ Sleeping(lease_future)
    /\ Become([Self EXCEPT !.lease_future = {[f EXCEPT !.phase = "sent"] : f \in @},
                           !.reqs = {GrantReq}])

ReplugDelayElapsed ==
    /\ Handle("ReplugDelay")
    /\ Sleeping(replug_future)
    /\ Become([Self EXCEPT !.replug_future = Some([phase |-> "sent"]),
                           !.reqs = {Unwrap(replug_future).req}])

KeepaliveDelayElapsed ==
    /\ Handle("KeepaliveDelay")
    /\ Sleeping(lease_keep_future)
    /\ Become([Self EXCEPT !.lease_keep_future = Some([phase |-> "sent"]),
                           !.reqs = {KeepaliveReq(Unwrap(lease_keep_future).lease_id)}])

\* The registry grants a lease the keeper does not hold.
NewLease == CHOOSE id \in 1 .. MaxLease : id \notin HeldLeases(Self)

LeaseGrantResult(lease_id, ttl, new_app_node) ==
    [lease_id |-> lease_id, ttl |-> ttl, new_app_node |-> new_app_node]

\* The registry's answer has no new_app_node.
GrantOk ==
    /\ Handle("GrantOk")
    /\ Sent(lease_future)
    /\ \E ttl \in TTLs : Become(grant_ok(Self, LeaseGrantResult(NewLease, ttl, None)))

\* The registry's answer says whether the node is a new one.
GrantOkNode(new) ==
    /\ Handle("GrantOk")
    /\ Sent(lease_future)
    /\ \E ttl \in TTLs :
          Become([grant_ok(Self, LeaseGrantResult(NewLease, ttl, Some(new)))
                     EXCEPT !.was_online = @ \/ new])

GrantErr(e) ==
    /\ Handle("GrantErr")
    /\ Sent(lease_future)
    /\ Become(grant_err(Self, e))

\* The registry answers a Replug-all with the lease it was sent under,
ReplugOk ==
    /\ Handle("ReplugOk")
    /\ Sent(replug_future)
    /\ Become(replug_ok(Self, [lease_id |-> Unwrap(lease_result).lease_id]))

\* or with a lease it made anew.
ReplugOkRenewed ==
    /\ Handle("ReplugOk")
    /\ Sent(replug_future)
    /\ Cardinality(HeldLeases(Self)) < MaxLease
    /\ Become(replug_ok(Self, [lease_id |-> NewLease]))

ReplugErr(e) ==
    /\ Handle(IF e.type = "NotPermitted" THEN "ReplugNotPermitted" ELSE "ReplugErr")
    /\ Sent(replug_future)
    /\ Become(replug_err(Self, e))

KeepaliveOk ==
    /\ Handle("KeepaliveOk")
    /\ Sent(lease_keep_future)
    /\ Become(keep_ok(Self))

KeepaliveErr(e) ==
    /\ Handle("KeepaliveErr")
    /\ Sent(lease_keep_future)
    /\ Become(keep_err(Self, e))

\* A spawned Plug-one task runs beside the agent, and after it.
PlugOneDone(key, r) ==
    /\ BagIn(key, plug_tasks)
    /\ Become(plug_one_done(Self, key, r))
    /\ op' = "PlugOneDone"
    /\ NoPlug
    /\ UNCHANGED pc

\* ------------------------------------------------------------- WatchTask
MaxRevision == 2     \* the revisions a watched value reports: 0..MaxRevision
MaxDelivered == 3    \* values sent to the receiver in one run

Revisions == 0 .. MaxRevision

\* spawn(): the first watch is made with the caller's revision.
spawn(revision) ==
    /\ last_revision = revision
    /\ watch_future = [kind |-> "watch", revision |-> revision]
    /\ close_rx = "open"
    /\ tx_open = TRUE
    /\ wpc = "close"
    /\ delivered = <<>>
    /\ produced = <<>>
    /\ polled = None
    /\ wop = "spawn"

\* A faulty variant, for the sensitivity of the properties: no back-off.
watch_once_now(to_delay, revision) == [kind |-> "watch", revision |-> revision]

watch_once(to_delay, revision) ==
    IF to_delay THEN [kind |-> "sleep", revision |-> None]
    ELSE [kind |-> "watch", revision |-> revision]

\* A faulty variant, for the sensitivity of the properties: the close is not
\* looked at while the task backs off.
PollCloseBackoff ==
    /\ wpc = "close"
    /\ wpc' = IF close_rx = "open" \/ watch_future.kind = "sleep" THEN "watch" ELSE "done"
    /\ wop' = "close"
    /\ UNCHANGED <<last_revision, watch_future, close_rx, tx_open, delivered, produced, polled>>
    /\ UNCHANGED kvars

\* The top of the loop: close_rx is polled.
PollClose ==
    /\ wpc = "close"
    /\ wpc' = IF close_rx = "open" THEN "watch" ELSE "done"
    /\ wop' = "close"
    /\ UNCHANGED <<last_revision, watch_future, close_rx, tx_open, delivered, produced, polled>>
    /\ UNCHANGED kvars

WatchFuturePending ==
    /\ wpc = "watch"
    /\ wpc' = "close"
    /\ wop' = "pending"
    /\ UNCHANGED <<last_revision, watch_future, close_rx, tx_open, delivered, produced, polled>>
    /\ UNCHANGED kvars

\* A faulty variant: a value of revision 0 is stored as well.
ready_some_zero(revision) ==
    /\ wpc = "watch"
    /\ watch_future.kind = "watch"
    /\ Len(delivered) < MaxDelivered
    /\ last_revision' = Some(revision)
    /\ IF tx_open
       THEN /\ delivered' = Append(delivered, revision)
            /\ watch_future' = watch_once(FALSE, Some(revision))
            /\ wpc' = "close"
       ELSE /\ wpc' = "done"
            /\ UNCHANGED <<delivered, watch_future>>
    /\ produced' = Append(produced, revision)
    /\ wop' = "value"
    /\ UNCHANGED <<close_rx, tx_open>>
    /\ UNCHANGED kvars

\* The arms of poll() for a watch_future that is ready.
ready_some(revision) ==
    /\ wpc = "watch"
    /\ watch_future.kind = "watch"
    /\ Len(delivered) < MaxDelivered
    /\ LET last == IF revision > 0 THEN Some(revision) ELSE last_revision IN
       /\ last_revision' = last
       /\ IF tx_open
          THEN /\ delivered' = Append(delivered, revision)
               /\ watch_future' = watch_once(FALSE, last)
               /\ wpc' = "close"
          ELSE /\ wpc' = "done"
               /\ UNCHANGED <<delivered, watch_future>>
    /\ produced' = Append(produced, revision)
    /\ wop' = "value"
    /\ UNCHANGED <<close_rx, tx_open>>
    /\ UNCHANGED kvars

\* Ok(None) from the watch closure, or the end of the back-off sleep.
ready_none ==
    /\ wpc = "watch"
    /\ watch_future' = watch_once(FALSE, last_revision)
    /\ wpc' = "close"
    /\ wop' = IF watch_future.kind = "sleep" THEN "woke" ELSE "none"
    /\ UNCHANGED <<last_revision, close_rx, tx_open, delivered, produced>>
    /\ UNCHANGED kvars

\* A faulty variant: an Err ends the task.
ready_err_ends ==
    /\ wpc = "watch"
    /\ watch_future.kind = "watch"
    /\ wpc' = "done"
    /\ wop' = "err"
    /\ UNCHANGED <<watch_future, last_revision, close_rx, tx_open, delivered, produced>>
    /\ UNCHANGED kvars

ready_err ==
    /\ wpc = "watch"
    /\ watch_future.kind = "watch"
    /\ watch_future' = watch_once(TRUE, last_revision)
    /\ wpc' = "close"
    /\ wop' = "err"
    /\ UNCHANGED <<last_revision, close_rx, tx_open, delivered, produced>>
    /\ UNCHANGED kvars

\* The closure is any function: its future ends with any of the three.
WatchValue(revision) == ready_some(revision) /\ polled' = None

WatchNone == ready_none /\ polled' = None

WatchErr == ready_err /\ polled' = None

\* The closure of Client::watch_service.  A request ends with a response
\* envelope that has a result, with one that has an error, or without one.
Codes == {"DEADLINE_EXCEEDED", "SYSTEM_ERROR", "TOO_MANY_ATTEMPTS", "CANCELLED",
          "NOT_FOUND", "NOT_PERMITTED", "INVALID_NAME"}
Outcome(kind, code, revision) == [kind |-> kind, code |-> code, revision |-> revision]
Outcomes ==
    {Outcome("result", "", r) : r \in Revisions}
    \cup {Outcome("error", c, 0) : c \in Codes}
    \cup {Outcome(k, "", 0) :
              k \in {"missing", "status", "json", "hyper_io", "hyper", "deadline"}}

SerializeError == [type |-> "Serialize", code |-> "", keys |-> {}]
\* The error of a request whose deadline elapsed: a transport error.
io_timeout == [type |-> "Io", code |-> "TimedOut", keys |-> {}]
FromHttpError(kind) == IF kind = "hyper_io" THEN IoError ELSE OtherError
convert_err(code) ==
    IF code = "NOT_PERMITTED" THEN NotPermittedError({}) ELSE RequestError(code)

\* Result<T, Error>, with T's revision.
Ok(revision) == [ok |-> TRUE, revision |-> revision, error |-> None]
Err(e) == [ok |-> FALSE, revision |-> 0, error |-> Some(e)]

send(o) ==
    CASE o.kind = "deadline" -> Err(io_timeout)
      [] o.kind \in {"hyper_io", "hyper"} -> Err(FromHttpError(o.kind))
      [] o.kind = "status" -> Err(OtherError)
      [] o.kind = "json" -> Err(SerializeError)
      [] o.kind = "missing" -> Err(OtherError)
      [] o.kind = "error" -> Err(convert_err(o.code))
      [] o.kind = "result" -> Ok(o.revision)

\* Result<Option<T>, Error>: Ok(Some(r)), Ok(None) or Err(e).
watch_service_once(o) ==
    LET result == send(o) IN
    IF result.ok THEN [kind |-> "Some", revision |-> result.revision, error |-> None]
    ELSE IF is_timeout(Unwrap(result.error))
         THEN [kind |-> "None", revision |-> 0, error |-> result.error]
         ELSE [kind |-> "Err", revision |-> 0, error |-> result.error]

get_service(o) ==
    LET result == send(o) IN
    IF result.ok THEN [kind |-> "Some", revision |-> result.revision, error |-> None]
    ELSE [kind |-> "Err", revision |-> 0, error |-> result.error]

watch_service(revision, o) ==
    IF IsSome(revision) THEN watch_service_once(o) ELSE get_service(o)

\* The request of the closure's future ends and the task handles it.
RequestEnds(o) ==
    /\ watch_future.kind = "watch"
    /\ LET r == watch_service(watch_future.revision, o) IN
       /\ polled' = Some([revision |-> watch_future.revision, outcome |-> o,
                           error |-> r.error])
       /\ CASE r.kind = "Some" -> ready_some(r.revision)
            [] r.kind = "None" -> ready_none
            [] r.kind = "Err" -> ready_err

BackoffElapsed ==
    /\ watch_future.kind = "sleep"
    /\ ready_none
    /\ polled' = None

DropHandle ==
    /\ close_rx = "open"
    /\ close_rx' = "dropped"
    /\ wop' = "drop"
    /\ UNCHANGED <<last_revision, watch_future, tx_open, wpc, delivered, produced, polled>>
    /\ UNCHANGED kvars

DropReceiver ==
    /\ tx_open
    /\ tx_open' = FALSE
    /\ wop' = "drop"
    /\ UNCHANGED <<last_revision, watch_future, close_rx, wpc, delivered, produced, polled>>
    /\ UNCHANGED kvars

\* ------------------------------------------------------------- specifications
KeeperInit ==
    /\ started = FALSE
    /\ closing = FALSE
    /\ endpoint \in {"e1"}
    /\ services = EmptyMap
    /\ lease_result = None
    /\ lease_future = None
    /\ replug_future = None
    /\ replug_backs = {}
    /\ lease_keep_future = None
    /\ plug_tasks = EmptyBag
    /\ pc = "running"
    /\ revoked = {}
    /\ op = "new"
    /\ arg = None
    /\ done = "none"
    /\ dropped = {}
    /\ is_first_online = TRUE
    /\ online_notifiers = {}
    /\ rx_dropped = {}
    /\ notified = {}
    /\ was_online = FALSE
    /\ cmd_rx = <<>>
    /\ polling = "cmds"
    /\ keeper = TRUE
    /\ reqs = {}
    /\ resolved = {}

WatchInit == \E revision \in {None} \cup {Some(r) : r \in Revisions} : spawn(revision)

Init == KeeperInit /\ spawn(None)

Next ==
    \/ Start
    \/ \E e \in Endpoints : UpdateEndpoint(e)
    \/ \E service \in ServiceDescs, replaceable \in BOOLEAN :
          PlugReplaceable(service, replaceable)
    \/ \E key \in Keys : Unplug(key)
    \/ Clear
    \/ Close
    \/ \E service \in ServiceDescs : PlugClosed(service)
    \/ ClearClosed
    \/ CloseClosed
    \/ GrantDelayElapsed
    \/ ReplugDelayElapsed
    \/ KeepaliveDelayElapsed
    \/ GrantOk
    \/ \E e \in RequestErrors : GrantErr(e)
    \/ ReplugOk
    \/ ReplugOkRenewed
    \/ \E e \in PlugErrors : ReplugErr(e)
    \/ KeepaliveOk
    \/ \E e \in RequestErrors : KeepaliveErr(e)
    \/ \E key \in Keys, r \in {OkResult} \cup RequestErrors : PlugOneDone(key, r)

\* The keeper with subscribers to the node's coming online, for one service
\* and one endpoint.
OnlineNext ==
    \/ Start
    \/ \E replaceable \in BOOLEAN :
          PlugReplaceable(Desc("svcA", "default", "d1"), replaceable)
    \/ Clear
    \/ Close
    \/ \E tx \in Subscribers : NotifyNodeOnline(tx)
    \/ \E tx \in Subscribers : DropSubscriber(tx)
    \/ GrantDelayElapsed
    \/ ReplugDelayElapsed
    \/ KeepaliveDelayElapsed
    \/ GrantOk
    \/ \E new \in BOOLEAN : GrantOkNode(new)
    \/ \E e \in RequestErrors : GrantErr(e)
    \/ ReplugOk
    \/ \E e \in RequestErrors : ReplugErr(e)
    \/ KeepaliveOk
    \/ \E e \in RequestErrors : KeepaliveErr(e)
    \/ \E key \in Keys, r \in {OkResult} : PlugOneDone(key, r)

WatchNext ==
    \/ PollClose
    \/ WatchFuturePending
    \/ \E revision \in Revisions : WatchValue(revision)
    \/ WatchNone
    \/ WatchErr
    \/ DropHandle
    \/ DropReceiver

Spec == Init /\ [][Next]_vars

OnlineSpec == Init /\ [][OnlineNext]_vars

WatchSpecInit == KeeperInit /\ WatchInit

WatchSpec == WatchSpecInit /\ [][WatchNext]_vars

\* The task is woken when the handle is dropped and when its future is ready,
\* so a poll that is due is made; the future that the closure returns ends,
\* as each long poll does at its deadline, and so does the sleep.
WatchFutureReady ==
    \/ \E revision \in Revisions : WatchValue(revision)
    \/ WatchNone
    \/ WatchErr

WatchPoll == PollClose \/ WatchFuturePending \/ WatchFutureReady

\* The WatchTask of Client::watch_service.
LongPollNext ==
    \/ PollClose
    \/ WatchFuturePending
    \/ \E o \in Outcomes : RequestEnds(o)
    \/ BackoffElapsed
    \/ DropHandle
    \/ DropReceiver

LongPollSpec == WatchSpecInit /\ [][LongPollNext]_vars

WatchLiveSpec ==
    /\ WatchSpecInit
    /\ [][WatchNext]_vars
    /\ WF_vars(WatchPoll)
    /\ SF_vars(WatchFutureReady)

\* ------------------------------------------------------------- the channel
\* The keeper with its command channel: a method of ServiceKeeper appends its
\* command with unbounded_send, from any thread and at any time, and the
\* receive loop of KeepTask::poll takes the commands from the head, one at a
\* time, until poll_next is Pending (the channel is empty) or closing is set.
\* Only then does poll() go on to process_futures, and the next poll starts
\* with the receive loop again.
MaxQueue == 2        \* commands sent and not yet received

StartCmd == [kind |-> "Start"]
UnplugCmd(key) == [kind |-> "Unplug", key |-> key]
RevokeAndCloseCmd == [kind |-> "RevokeAndClose"]
\* The commands the callers send here: two services are plugged and unplugged.
QueueDescs == {Desc("svcA", "default", "d1"), Desc("svcB", "default", "d1")}
Cmd ==
    {StartCmd, RevokeAndCloseCmd}
    \cup {[kind |-> "Plug"] @@ PlugCmd(service, TRUE) : service \in QueueDescs}
    \cup {UnplugCmd(KeyOf(service)) : service \in QueueDescs}

Queued(q, kind) == {q[i] : i \in {j \in DOMAIN q : q[j].kind = kind}}
PlugAck(cmd) == Ack("plug", KeyOf(cmd.service))

\* The oneshot senders of two plug() calls in the channel are two senders: the
\* acks are named by their key, so one Plug of a key is in the channel at a
\* time; close() is called once.
Enqueue(cmd) ==
    /\ pc = "running"
    /\ keeper
    /\ Len(cmd_rx) < MaxQueue
    /\ cmd.kind = "Plug" => PlugAck(cmd) \notin {PlugAck(c) : c \in Queued(cmd_rx, "Plug")}
    /\ cmd.kind = "RevokeAndClose" => Queued(cmd_rx, "RevokeAndClose") = {}
    /\ cmd_rx' = Append(cmd_rx, cmd)
    /\ op' = "unbounded_send"
    /\ NoPlug
    /\ Turn(Self)
    /\ UNCHANGED <<pc, polling, keeper>>

process_cmd(s, cmd) ==
    CASE cmd.kind = "Start" -> cmd_start(s)
      [] cmd.kind = "Plug" -> cmd_plug(s, cmd.service, PlugAck(cmd), cmd.replaceable)
      [] cmd.kind = "Unplug" -> cmd_unplug(s, cmd.key)
      [] cmd.kind = "RevokeAndClose" -> cmd_revoke_and_close(s)

\* A faulty variant: the senders in the commands left in the channel are kept.
rx_dropped_leak(s, q) == task_dropped(s)

\* The task is dropped with its receiver, and the commands left in the channel
\* with it: the sender in a Plug that was not received is dropped.
rx_dropped_with(s, q) == AckDrop(task_dropped(s), {PlugAck(c) : c \in Queued(q, "Plug")})

\* One round of the receive loop: `while !self.closing` is tested before every
\* poll_next, so the command after a RevokeAndClose is not received.
Recv ==
    /\ pc = "running"
    /\ polling = "cmds"
    /\ cmd_rx # <<>>
    /\ LET cmd == Head(cmd_rx)
           s == process_cmd(Self, cmd)
       IN  /\ op' = cmd.kind
           /\ arg' = IF cmd.kind = "Plug" THEN Some(PlugCmd(cmd.service, cmd.replaceable))
                     ELSE None
           /\ cmd.kind = "Plug" /\ IsSome(lease_result) /\ started => InFlight < MaxTasks
           /\ IF s.closing
              THEN /\ Turn(rx_dropped_with(s, Tail(cmd_rx)))
                   /\ pc' = "exited"
                   /\ cmd_rx' = <<>>
                   /\ UNCHANGED <<polling, keeper>>
              ELSE /\ Turn(s)
                   /\ cmd_rx' = Tail(cmd_rx)
                   /\ UNCHANGED <<pc, polling, keeper>>

\* A faulty variant: the loop is left with commands in the channel.
RecvPendingEarly ==
    /\ pc = "running"
    /\ polling = "cmds"
    /\ polling' = "futures"
    /\ op' = "Pending"
    /\ NoPlug
    /\ Turn(Self)
    /\ UNCHANGED <<pc, cmd_rx, keeper>>

\* A faulty variant: the task has no sender of its own.
SendersOfCaller == IF keeper THEN {"ServiceKeeper"} ELSE {}

\* The senders of the channel: the one in the ServiceKeeper and the clone that
\* ServiceKeeper::new gave to the KeepTask, which lives as long as the task.
Senders ==
    (IF keeper THEN {"ServiceKeeper"} ELSE {})
    \cup (IF pc = "running" THEN {"KeepTask"} ELSE {})

\* The channel is empty: poll_next is Pending while a sender is left, the loop
\* breaks and process_futures runs; with no sender left it is Ready(None),
\* closing is set and poll() returns Ready(()).
RecvPending ==
    /\ pc = "running"
    /\ polling = "cmds"
    /\ cmd_rx = <<>>
    /\ NoPlug
    /\ IF Senders = {}
       THEN /\ Turn(task_dropped([Self EXCEPT !.closing = TRUE]))
            /\ pc' = "exited"
            /\ op' = "None"
            /\ UNCHANGED <<polling, cmd_rx, keeper>>
       ELSE /\ Turn(Self)
            /\ polling' = "futures"
            /\ op' = "Pending"
            /\ UNCHANGED <<pc, cmd_rx, keeper>>

\* process_futures finds a slot future Ready.
FutureReady ==
    /\ polling = "futures"
    /\ \/ GrantOk
       \/ ReplugOk

\* poll() returns Pending and the task is woken again.
PollAgain ==
    /\ pc = "running"
    /\ polling = "futures"
    /\ polling' = "cmds"
    /\ op' = "poll"
    /\ NoPlug
    /\ Turn(Self)
    /\ UNCHANGED <<pc, cmd_rx, keeper>>

QueueNext ==
    \/ \E cmd \in Cmd : Enqueue(cmd)
    \/ Recv
    \/ RecvPending
    \/ FutureReady
    \/ PollAgain
    \/ \E key \in Keys, r \in {OkResult} : PlugOneDone(key, r)
    \/ \E service \in QueueDescs : PlugClosed(service)

QueueSpec == Init /\ [][QueueNext]_vars

\* The keeper with its channel whose caller may drop the ServiceKeeper.
DropKeeper ==
    /\ keeper
    /\ keeper' = FALSE
    /\ op' = "drop"
    /\ NoPlug
    /\ Turn(Self)
    /\ UNCHANGED <<pc, cmd_rx, polling>>

KeepaliveReady ==
    /\ polling = "futures"
    /\ \/ KeepaliveDelayElapsed
       \/ KeepaliveOk

HandleNext ==
    \/ DropKeeper
    \/ \E cmd \in Cmd : Enqueue(cmd)
    \/ Recv
    \/ RecvPending
    \/ FutureReady
    \/ KeepaliveReady
    \/ PollAgain
    \/ \E key \in Keys, r \in {OkResult} : PlugOneDone(key, r)
    \/ \E service \in QueueDescs : keeper /\ PlugClosed(service)

HandleSpec == Init /\ [][HandleNext]_vars

\* The keeper whose requests fail: every request of the client goes through
\* get_response, which ends it with a response, with an error of the registry
\* or of the connection, or with the transport's timeout error.
KeepErrors == RequestErrors \cup {io_timeout}

RetryNext ==
    \/ Start
    \/ \E service \in ServiceDescs : PlugReplaceable(service, TRUE)
    \/ \E key \in Keys : Unplug(key)
    \/ GrantDelayElapsed
    \/ ReplugDelayElapsed
    \/ KeepaliveDelayElapsed
    \/ GrantOk
    \/ \E e \in KeepErrors : GrantErr(e)
    \/ ReplugOk
    \/ \E e \in KeepErrors : ReplugErr(e)
    \/ KeepaliveOk
    \/ \E e \in KeepErrors : KeepaliveErr(e)
    \/ \E key \in Keys, r \in {OkResult} : PlugOneDone(key, r)

RetrySpec == Init /\ [][RetryNext]_vars

\* The keeper that is started, registers services and is answered: the
\* futures it holds and the tasks it spawned are polled by the runtime whenever
\* they can make progress, and every request and every timer ends.  The
\* commands are the caller's and need never come.
PlugOneAgentStep ==
    \/ GrantOk
    \/ ReplugOk
    \/ KeepaliveDelayElapsed
    \/ KeepaliveOk
    \/ \E key \in Keys, r \in {OkResult} \cup RequestErrors : PlugOneDone(key, r)

PlugOneNext ==
    \/ Start
    \/ \E service \in ServiceDescs : PlugReplaceable(service, TRUE)
    \/ \E key \in Keys : Unplug(key)
    \/ PlugOneAgentStep

PlugOneSpec == Init /\ [][PlugOneNext]_vars /\ WF_vars(PlugOneAgentStep)

\* ------------------------------------------------------------- properties
\* What a step issued, and what the Grant that a step answers was made for.
Issued(kind) == {r \in reqs' : r.kind = kind}
GrantCause == Unwrap(lease_future).cause
ParkedAcks == {Ack("parked", k) : k \in replug_backs}
ResolvedWith(result) == {r.tx : r \in {x \in resolved' : x.result = result}}
\* The one Replug-all of the registrations and the lease a step leaves.
FullReplug ==
    {ReplugAllReq(Values(services'), endpoint', l.lease_id) : l \in lease_result'}

\* C1: a Grant's success issues in the same step the Replug-all, the next one
\* issued, which carries exactly the descriptors in services and the lease id
\* just granted (none is issued for empty services, and none then until the
\* next Grant: every other Replug-all repeats one that was answered or waits);
\* a parked ack is resolved with Ok only by the success of a Replug-all.
C1_Step ==
    /\ op' = "GrantOk" =>
          /\ \E ttl \in TTLs, new \in {None, Some(TRUE), Some(FALSE)} :
                lease_result' = {LeaseGrantResult(NewLease, ttl, new)}
          /\ reqs' = IF DOMAIN services' = {} THEN {} ELSE FullReplug
    /\ (op' # "GrantOk" /\ Issued("ReplugAll") # {}) => IsSome(replug_future)
    /\ (IsSome(replug_future') /\ ~IsSome(replug_future)) => op' = "GrantOk"
    /\ \A r \in resolved' : (r.tx.from = "parked" /\ r.result = "Ok") => op' = "ReplugOk"
C1_ReplugAfterGrant == [][C1_Step]_vars
C1_Witness ==
    /\ op = "ReplugOk"
    /\ \E r \in resolved : r.tx.from = "parked" /\ r.result = "Ok"

\* C2: a Replug-all refused with NotPermitted for the services S removes from
\* services exactly the keys (s, z) with s in S, resolves exactly the parked
\* acks of those keys with NotPermitted, and leaves every other entry of
\* services as it was and every other parked ack parked and unresolved.
C2_Step ==
    op' = "ReplugNotPermitted" => \A S \in SUBSET ServiceNames :
        ReplugErr(NotPermittedError(S)) =>
            /\ services' = [k \in {x \in DOMAIN services : x[1] \notin S} |-> services[k]]
            /\ replug_backs' = {k \in replug_backs : k[1] \notin S}
            /\ resolved' = {[tx |-> Ack("parked", k), result |-> "NotPermitted"] :
                               k \in {x \in replug_backs : x[1] \in S}}
C2_NotPermittedFrame == [][C2_Step]_vars
C2_Witness ==
    /\ op = "ReplugNotPermitted"
    /\ Cardinality(resolved) = 2
    /\ replug_backs # {}
    /\ DOMAIN services # {}

\* C3: the revisions of the values delivered to the receiver, in the order
\* they were delivered, never decrease.
C3_NonDecreasing ==
    \A i, j \in DOMAIN delivered : i < j => delivered[i] <= delivered[j]
\* C3, its second part: delivering a value of revision 0 leaves last_revision.
C3_ZeroKeepsRevision == [][WatchValue(0) => last_revision' = last_revision]_vars

\* C4: a Replug-all sent to the registry contains no descriptor whose key was
\* unplugged, and not plugged again, before it was sent; the Replug-all that
\* waited for its retry delay is one of them.
C4_Step ==
    \A r \in Issued("ReplugAll") :
        \A f \in {g \in replug_future : g.phase = "sleep"} :
            {KeyOf(d) : d \in r.services} \cap f.unplugged = {}
C4_NoUnpluggedInReplug == [][C4_Step]_vars

\* C5: RevokeAndClose issues exactly one RevokeLease when a lease is active,
\* and none when there is no lease or its lease was revoked before.
C5_Step ==
    op' = "RevokeAndClose" =>
        reqs' = {RevokeReq(l.lease_id) : l \in {x \in lease_result : x.lease_id \notin revoked}}
C5_CloseRevokesActiveLease == [][C5_Step]_vars

\* C6, C7: what the success of a Grant issues.  As stated: exactly one
\* Replug-all with every registered descriptor.  As the code has it: that one
\* when a descriptor is registered, and no request when none is.
OneFullReplug == reqs' = FullReplug /\ Cardinality(FullReplug) = 1
FullReplugIfAny == IF DOMAIN services' = {} THEN reqs' = {} ELSE OneFullReplug

C6_BeforeStart ==
    ~started' =>
        /\ \A r \in reqs' : r.kind \notin {"Grant", "ReplugAll", "PlugOne", "UnplugService"}
        /\ ResolvedWith("Ok") = {}
C6_FirstStart == (op' = "Start" /\ ~started) => (reqs' = {GrantReq} /\ started')
C6_ReplugSuccess ==
    op' = "ReplugOk" => (ResolvedWith("Ok") = ParkedAcks /\ replug_backs' = {})

\* C6: until Start is processed no step issues a Grant, Replug-all, Plug-one
\* or UnplugService request or resolves an ack with Ok; the first Start issues
\* exactly one Grant; the success of that Grant issues exactly one Replug-all
\* with every registered descriptor if any is registered and no request
\* otherwise; the success of a Replug-all resolves every parked ack with Ok.
C6_StartThenReplug ==
    [][/\ C6_BeforeStart
       /\ C6_FirstStart
       /\ (op' = "GrantOk" /\ GrantCause.by = "Start") => FullReplugIfAny
       /\ C6_ReplugSuccess]_vars
\* C6 as stated: the Grant's success always issues exactly one Replug-all.
C6_AsStated ==
    [][/\ C6_BeforeStart
       /\ C6_FirstStart
       /\ (op' = "GrantOk" /\ GrantCause.by = "Start") => OneFullReplug
       /\ C6_ReplugSuccess]_vars
C6_Witness ==
    /\ op = "GrantOk"
    /\ replug_backs # {}
    /\ \E r \in reqs : r.kind = "ReplugAll" /\ r.services = Values(services)

C7_KeepaliveFailure ==
    op' = "KeepaliveErr" => \A e \in RequestErrors :
        (~is_timeout(e) /\ KeepaliveErr(e)) =>
            /\ lease_result' = None
            /\ reqs' = {GrantReq}
            /\ Sent(lease_future')
            /\ services' = services

\* C7: a Keepalive that fails with an error that is no timeout discards the
\* lease and issues a Grant in the same step, with no delay, and leaves
\* services; the success of that Grant issues a Replug-all with all of the
\* current services if there is any, and no request otherwise.
C7_GrantAfterKeepalive ==
    [][/\ C7_KeepaliveFailure
       /\ (op' = "GrantOk" /\ GrantCause.by = "Keepalive") => FullReplugIfAny]_vars
\* C7 as stated: the Grant's success always issues the Replug-all.
C7_AsStated ==
    [][/\ C7_KeepaliveFailure
       /\ (op' = "GrantOk" /\ GrantCause.by = "Keepalive") => OneFullReplug]_vars
C7_Witness ==
    /\ op = "KeepaliveErr"
    /\ reqs = {GrantReq}
    /\ lease_result = None
    /\ DOMAIN services # {}

C8_UpdateEndpoint ==
    op' = "UpdateEndpoint" => \A e \in Endpoints :
        UpdateEndpoint(e) =>
            /\ endpoint' = e
            /\ UNCHANGED <<started, services, replug_backs, plug_tasks>>
            /\ resolved' = {}
            /\ IF started /\ DOMAIN services # {}
               THEN /\ lease_result' = None
                    /\ lease_keep_future' = None
                    /\ replug_future' = None
                    /\ reqs' = {GrantReq}
                    /\ Sent(lease_future')
               ELSE /\ reqs' = {}
                    /\ UNCHANGED <<lease_result, lease_future, replug_future,
                                   lease_keep_future>>

\* C8: UpdateEndpoint(e2) on a started keeper with registrations stores e2,
\* discards the lease and the keepalive and replug slots, issues a Grant and
\* no RevokeLease; the Replug-all issued at that Grant's success uses the
\* endpoint stored then.  On a keeper not started or without registrations
\* only the endpoint changes.
C8_EndpointChange ==
    [][/\ C8_UpdateEndpoint
       /\ (op' = "GrantOk" /\ GrantCause.by = "UpdateEndpoint") =>
              \A r \in Issued("ReplugAll") : r.endpoint = endpoint']_vars
\* C8 as stated: that Replug-all uses the endpoint of the UpdateEndpoint.
C8_AsStated ==
    [][/\ C8_UpdateEndpoint
       /\ (op' = "GrantOk" /\ GrantCause.by = "UpdateEndpoint") =>
              \A r \in Issued("ReplugAll") : r.endpoint = GrantCause.endpoint]_vars
C8_Witness ==
    /\ op = "UpdateEndpoint"
    /\ endpoint = "e2"
    /\ reqs = {GrantReq}
    /\ lease_result = None

\* C9: a Plug that is not replaceable, for a key in services, resolves the
\* caller's future with an error, issues no request and changes none of
\* services, the parked acks, the lease and the slots.  A replaceable Plug for
\* a key in services stores its descriptor and goes on as a first Plug does:
\* a Plug-one under the lease of a started keeper, else the ack is parked, with
\* a Grant when the keeper is started and none is in flight.
C9_Step ==
    \A cmd \in arg' :
        LET service == cmd.service
            key == KeyOf(service)
        IN  key \in DOMAIN services =>
            IF ~cmd.replaceable
            THEN /\ resolved' = {[tx |-> Ack("plug", key), result |-> HasBeenPlugged]}
                 /\ reqs' = {}
                 /\ UNCHANGED <<services, replug_backs, lease_result, lease_future,
                                replug_future, lease_keep_future, plug_tasks, started,
                                endpoint>>
            ELSE /\ services' = [services EXCEPT ![key] = service]
                 /\ \A r \in resolved' : r.result # HasBeenPlugged
                 /\ IF started /\ IsSome(lease_result)
                    THEN /\ reqs' = {PlugOneReq(service, endpoint, l.lease_id) :
                                        l \in lease_result}
                         /\ plug_tasks' = plug_tasks (+) SetToBag({key})
                         /\ UNCHANGED <<replug_backs, lease_result, lease_future>>
                    ELSE /\ replug_backs' = replug_backs \cup {key}
                         /\ reqs' = IF started /\ ~IsSome(lease_future)
                                    THEN {GrantReq} ELSE {}
                         /\ started => IsSome(lease_future')
                         /\ UNCHANGED <<plug_tasks, lease_result>>
C9_PlugExisting == [][C9_Step]_vars
C9_Witness ==
    /\ \E cmd \in arg : ~cmd.replaceable /\ KeyOf(cmd.service) \in DOMAIN services
    /\ \E r \in resolved : r.result = HasBeenPlugged

\* C10: a plug future is resolved with "keep task closed" only when the agent
\* has exited.
C10_ClosedOnlyAfterExit ==
    \A r \in resolved : r.result = KeepTaskClosed => pc = "exited"

\* C11: the done sender of clear() or close() is never lost.  When the command
\* is processed with a lease held, the sender goes to the task of the
\* RevokeLease request, which sends () when the request has ended; when no
\* lease is held, () is sent at once.
C11_Step ==
    op' \in {"Clear", "RevokeAndClose"} =>
        done' = IF IsSome(lease_result) THEN "spawned" ELSE "sent"
C11_DoneValueSent == [][C11_Step]_vars

\* C12: a step that processes Clear leaves services, the parked acks and the
\* Keepalive and Replug-all slots empty, issues a RevokeLease for the lease held
\* and nothing else, and changes neither started, endpoint, the subscribers nor
\* closing; the agent keeps running.
C12_Step ==
    op' = "Clear" =>
        /\ services' = EmptyMap
        /\ replug_backs' = {}
        /\ lease_keep_future' = None
        /\ replug_future' = None
        /\ reqs' = {RevokeReq(l.lease_id) : l \in lease_result}
        /\ UNCHANGED <<started, endpoint, online_notifiers, closing>>
        /\ pc' = "running"
C12_ClearFrame == [][C12_Step]_vars

\* C13: once the handle is dropped the task ends at the next top of its loop,
\* whether its future is the closure's or the back-off sleep; once it has ended
\* it neither calls the closure nor sends a value.
C13_Step ==
    /\ (wop' = "close" /\ close_rx = "dropped") => wpc' = "done"
    /\ wpc = "done" => UNCHANGED <<wpc, watch_future, last_revision, delivered, produced, polled>>
C13_DropEndsTask ==
    /\ [][C13_Step]_vars
    /\ (close_rx = "dropped") ~> (wpc = "done")
C13_Witness ==
    /\ close_rx = "dropped"
    /\ wpc = "done"
    /\ watch_future.kind = "sleep"
    /\ tx_open

\* C15: a future that ends with Ok(None) or Err leaves last_revision as it is.
\* After Ok(None) the closure is called in the same step with last_revision;
\* after Err the future is the back-off sleep, and the closure is called only
\* by the step in which the sleep ends, with the last_revision the task had at
\* the Err.  The values sent are the values produced, in their order.
IsPrefix(s, t) == Len(s) <= Len(t) /\ SubSeq(t, 1, Len(s)) = s
WatchCall(revision) == [kind |-> "watch", revision |-> revision]
C15_Step ==
    /\ wop' \in {"none", "err", "woke"} => UNCHANGED <<last_revision, delivered>>
    /\ wop' = "none" => watch_future' = WatchCall(last_revision)
    /\ wop' = "err" => watch_future'.kind = "sleep"
    /\ watch_future.kind = "sleep" =>
          /\ UNCHANGED last_revision
          /\ \/ UNCHANGED watch_future
             \/ wop' = "woke" /\ watch_future' = WatchCall(last_revision)
    /\ IsPrefix(delivered', produced')
    /\ tx_open' /\ wpc' # "done" => delivered' = produced'
C15_NoneAndErr == [][C15_Step]_vars
C15_Witness ==
    /\ wop = "woke"
    /\ watch_future = WatchCall(last_revision)
    /\ last_revision # None
    /\ Len(delivered) >= 2
    /\ delivered[1] # delivered[2]

\* C16: a Grant that succeeds with new_app_node Some(true) sends every
\* subscriber whose channel is open one value, true if no such Grant succeeded
\* before and false otherwise, and removes the subscribers whose channel is
\* closed; a Grant that succeeds with None or Some(false) sends nothing and
\* leaves the first-online flag and the subscribers; no other step sends.
C16_Step ==
    /\ op' = "GrantOk" =>
          \A l \in lease_result' :
              IF l.new_app_node = Some(TRUE)
              THEN /\ notified' = {[tx |-> tx, value |-> ~was_online] :
                                       tx \in online_notifiers \ rx_dropped}
                   /\ online_notifiers' = online_notifiers \ rx_dropped
                   /\ ~is_first_online'
              ELSE /\ notified' = {}
                   /\ UNCHANGED <<is_first_online, online_notifiers>>
    /\ op' # "GrantOk" => notified' = {} /\ UNCHANGED is_first_online
    /\ is_first_online' <=> ~was_online'
C16_FirstOnline == [][C16_Step]_vars
C16_Witness ==
    /\ op = "GrantOk"
    /\ \E n \in notified : ~n.value
    /\ rx_dropped # {}
    /\ rx_dropped \cap online_notifiers = {}

\* C17: each of the Grant, Replug-all and Keepalive slots holds at most one
\* future; a step issues at most one request of each kind, and the request it
\* issues is the one its slot then holds; a step that gives a slot that holds
\* a future a new one drops the one it held.
C17_Slot(kind, held, holds) ==
    LET issued == {r \in reqs' : r.kind = kind} IN
    /\ Cardinality(holds) <= 1
    /\ Cardinality(issued) <= 1
    /\ issued # {} => Sent(holds)
    /\ (IsSome(held) /\ IsSome(holds)
           /\ op' \notin {"GrantDelay", "ReplugDelay", "KeepaliveDelay"}
           /\ (issued # {} \/ (Sleeping(holds) /\ ~Sleeping(held))))
          => kind \in dropped'
C17_Step ==
    /\ C17_Slot("Grant", lease_future, lease_future')
    /\ C17_Slot("ReplugAll", replug_future, replug_future')
    /\ C17_Slot("Keepalive", lease_keep_future, lease_keep_future')
C17_OneInFlight == [][C17_Step]_vars
C17_Witness ==
    /\ op = "UpdateEndpoint"
    /\ "Grant" \in dropped
    /\ Sent(lease_future)
    /\ reqs = {GrantReq}

\* C20: a Start processed by a started keeper changes no field, issues no
\* request and resolves no future; the first Start sets started and, with no
\* lease held and no Grant in its slot, issues a Grant at once.
C20_Step ==
    op' = "Start" =>
        IF started
        THEN /\ UNCHANGED <<started, closing, endpoint, services, lease_result,
                            lease_future, replug_future, replug_backs,
                            lease_keep_future, plug_tasks, pc>>
             /\ reqs' = {}
             /\ resolved' = {}
        ELSE /\ started'
             /\ (lease_result = None /\ lease_future = None) =>
                    (reqs' = {GrantReq} /\ Sent(lease_future'))
C20_StartIdempotent == [][C20_Step]_vars
C20_Witness ==
    /\ op = "Start"
    /\ reqs = {}
    /\ IsSome(lease_result)
    /\ IsSome(replug_future)
    /\ DOMAIN services # {}

\* C21: a step that processes an Unplug removes one key (s, z) from services
\* and from the parked acks and leaves every other entry of both, the lease,
\* the endpoint and the futures of the three slots as they are; it issues one
\* UnplugService, for (s, z) at the endpoint, if the keeper is started and
\* (s, z) was in services, and no request otherwise.
SameFuture(held, holds) ==
    /\ IsSome(held) <=> IsSome(holds)
    /\ \A f \in held, g \in holds :
          /\ f.phase = g.phase
          /\ f.phase = "sleep" => f.req = g.req
C21_Step ==
    op' = "Unplug" =>
        \E key \in Keys :
            /\ services' = MapRemove(services, {key})
            /\ replug_backs' = replug_backs \ {key}
            /\ reqs' = IF started /\ key \in DOMAIN services
                       THEN {UnplugReq(key, endpoint)} ELSE {}
            /\ UNCHANGED <<lease_result, endpoint, lease_future, lease_keep_future,
                           started, closing, plug_tasks>>
            /\ SameFuture(replug_future, replug_future')
C21_UnplugFrame == [][C21_Step]_vars
C21_Witness ==
    /\ op = "Unplug"
    /\ \E r \in reqs : r.kind = "UnplugService"
    /\ resolved # {}
    /\ DOMAIN services # {}
    /\ replug_backs # {}
    /\ IsSome(lease_future)

\* C18: every error a request ends with is classified as the table says:
\* can_retry by the kind of the error and, for a Request error, by its code;
\* is_not_found exactly for the code NOT_FOUND of a Request error; is_timeout
\* exactly for the error of a request that timed out.
TimedOut(o) ==
    \/ o.kind = "deadline"
    \/ o.kind = "error" /\ o.code = "DEADLINE_EXCEEDED"
C18_Classification ==
    \A p \in polled : \A e \in p.error :
        /\ e.type \in {"Ssl", "Serialize", "NotPermitted", "Other"} => ~can_retry(e)
        /\ e.type \in {"Io", "Http"} => can_retry(e)
        /\ e.type = "Request" =>
              (can_retry(e) <=> e.code \in {"SYSTEM_ERROR", "TOO_MANY_ATTEMPTS",
                                            "DEADLINE_EXCEEDED", "CANCELLED"})
        /\ is_not_found(e) <=> (e.type = "Request" /\ e.code = "NOT_FOUND")
        /\ is_timeout(e) <=> TimedOut(p.outcome)

\* C19: a long poll that ends with a timeout, the transport's or the server's,
\* is handled as Ok(None): the closure is called again in the same step, with
\* no back-off; one that ends with any other error is handled as Err.
C19_Step ==
    \A p \in polled' :
        (wop' \in {"value", "none", "err"} /\ IsSome(p.revision)) =>
            IF TimedOut(p.outcome)
            THEN wop' = "none" /\ watch_future' = WatchCall(last_revision)
            ELSE IF IsSome(p.error)
                 THEN wop' = "err" /\ watch_future'.kind = "sleep"
                 ELSE wop' = "value"
C19_TimeoutIsNone == [][C19_Step]_vars

\* C14: once the receiver of the stream is dropped the task ends, unless the
\* handle is dropped first, whatever the closure's futures end with.
C14_ReceiverDropEndsTask ==
    (~tx_open) ~> (wpc = "done" \/ close_rx = "dropped")
C12_Witness ==
    /\ op = "Clear"
    /\ \E r \in reqs : r.kind = "RevokeLease"
    /\ resolved # {}
    /\ online_notifiers # {}
    /\ started
\* C22: once a Plug-one for (s, z) has failed with an error that cannot be
\* retried, (s, z) is eventually in neither services nor the parked acks.
C22_Failed(key) ==
    /\ op = "PlugOneDone"
    /\ \E r \in resolved : r.tx = Ack("task", key) /\ r.result = AckErr(OtherError)
    /\ key \in DOMAIN services
C22_CancelRemoves ==
    \A key \in Keys : C22_Failed(key) ~> (key \notin DOMAIN services /\ key \notin replug_backs)

\* C23: the agent exits only with closing set and the channel drained: the
\* step in which poll() returns Ready leaves no command that was sent before
\* it unreceived.
C23_Step ==
    pc = "running" /\ pc' = "exited" =>
        /\ closing'
        /\ cmd_rx # <<>> /\ Tail(cmd_rx) = <<>>
C23_ExitDrained == [][C23_Step]_vars

\* C24: the step in which the agent exits resolves with "keep task closed"
\* every plug() future whose sender is parked in replug_backs and every one
\* whose Plug is still in the channel, and nothing with anything else; a
\* plug() called after the exit resolves with "keep task closed" in its own
\* step.
C24_Closed(txs) == {[tx |-> tx, result |-> KeepTaskClosed] : tx \in txs}
C24_Step ==
    /\ pc = "running" /\ pc' = "exited" =>
          resolved' = C24_Closed(ParkedAcks
                                 \cup {PlugAck(c) : c \in Queued(Tail(cmd_rx), "Plug")})
    /\ pc = "exited" /\ op' = "PlugClosed" =>
          \E service \in QueueDescs : resolved' = C24_Closed({Ack("plug", KeyOf(service))})
C24_ClosedOnExit == [][C24_Step]_vars
C24_Witness ==
    /\ pc = "exited"
    /\ op = "RevokeAndClose"
    /\ \E r \in resolved : r.tx.from = "parked" /\ r.result = KeepTaskClosed
    /\ \E r \in resolved : r.tx.from = "plug" /\ r.result = KeepTaskClosed

\* C25: an Err of the closure's future does not end the task: the step that
\* handles it sends nothing, leaves the task at the top of its loop with the
\* back-off sleep as its future, and the closure is called again when the sleep
\* ends unless the task has ended by then.  The task ends only at the top of
\* the loop with the handle gone, or when a value cannot be sent because the
\* receiver is gone; only the values of the closure are sent.
C25_Step ==
    /\ wop' = "err" =>
          /\ wpc' = "close"
          /\ watch_future'.kind = "sleep"
          /\ UNCHANGED <<delivered, tx_open>>
    /\ wpc # "done" /\ wpc' = "done" =>
          \/ wop' = "close" /\ close_rx = "dropped"
          \/ wop' = "value" /\ ~tx_open
    /\ delivered' # delivered =>
          /\ wop' = "value"
          /\ produced' # <<>>
          /\ delivered' = Append(delivered, produced'[Len(produced')])
C25_ErrNeverEnds ==
    /\ [][C25_Step]_vars
    /\ (wop = "err") ~> (wop = "woke" \/ wpc = "done")
C25_Witness ==
    /\ wop = "woke"
    /\ wpc = "close"
    /\ watch_future.kind = "watch"
    /\ tx_open
    /\ close_rx = "open"
    /\ delivered # <<>>

\* C26: a Grant that fails is made again and a Replug-all that fails with an
\* error other than NotPermitted is made again while services is not empty,
\* at once when the error is a timeout (the transport's or the registry's
\* DEADLINE_EXCEEDED) and after the back-off sleep otherwise.
C26_Timeout(e) == e = io_timeout \/ e = RequestError("DEADLINE_EXCEEDED")
C26_Retried(slot, e) ==
    /\ IsSome(slot)
    /\ \A f \in slot : f.phase = IF C26_Timeout(e) THEN "sent" ELSE "sleep"
C26_Step ==
    /\ op' = "GrantErr" =>
          \A e \in KeepErrors : GrantErr(e) =>
              /\ C26_Retried(lease_future', e)
              /\ C26_Timeout(e) => reqs' = {GrantReq}
    /\ op' = "ReplugErr" /\ DOMAIN services # {} =>
          \A e \in KeepErrors : ReplugErr(e) =>
              /\ C26_Retried(replug_future', e)
              /\ C26_Timeout(e) => \E r \in reqs' : r.kind = "ReplugAll"
C26_RetryDelay == [][C26_Step]_vars

\* C27: a Keepalive that fails with a timeout leaves the lease, services, the
\* parked acks and the replug and Grant slots as they are, and the Keepalive
\* is sent again in the same step, with no delay.
C27_Step ==
    op' = "KeepaliveErr" => \A e \in RequestErrors :
        (is_timeout(e) /\ KeepaliveErr(e)) =>
            /\ UNCHANGED <<lease_result, services, replug_backs, replug_future, lease_future>>
            /\ Sent(lease_keep_future')
            /\ reqs' = {KeepaliveReq(l.lease_id) : l \in lease_result}
C27_TimeoutRetry == [][C27_Step]_vars

\* C28: the commands are received in the order they were sent, one from the
\* head of the channel at a time, and a completion of a slot future is handled
\* only after the receive loop of that poll has found the channel empty.  A
\* Plug received while the keeper holds no lease has its ack parked and issues
\* no Plug-one, and the success of the Grant issues the Replug-all with every
\* descriptor registered by then and leaves the parked acks.
C28_Received == op' \in {c.kind : c \in Cmd}
C28_Step ==
    /\ op' = "unbounded_send" => \E cmd \in Cmd : cmd_rx' = Append(cmd_rx, cmd)
    /\ C28_Received =>
          /\ polling = "cmds"
          /\ cmd_rx # <<>>
          /\ op' = Head(cmd_rx).kind
          /\ cmd_rx' = Tail(cmd_rx) \/ pc' = "exited"
    /\ op' \in {"GrantOk", "ReplugOk"} => polling = "futures"
    /\ polling = "cmds" /\ polling' = "futures" => cmd_rx = <<>>
    /\ op' = "Plug" /\ lease_result = None =>
          /\ KeyOf(Head(cmd_rx).service) \in replug_backs'
          /\ Head(cmd_rx).service \in Values(services')
          /\ \A r \in reqs' : r.kind # "PlugOne"
          /\ plug_tasks' = plug_tasks
    /\ op' = "GrantOk" =>
          /\ FullReplugIfAny
          /\ UNCHANGED <<replug_backs, plug_tasks, services>>
C28_DrainedFirst == [][C28_Step]_vars
\* C28 as stated: every Plug sent before the success of a Grant is handled is
\* parked and in the Replug-all of that step.
C28_AsStated ==
    [][op' = "GrantOk" =>
          \A c \in Queued(cmd_rx, "Plug") :
              /\ KeyOf(c.service) \in replug_backs'
              /\ \E r \in reqs' : r.kind = "ReplugAll" /\ c.service \in r.services]_vars
C28_Witness ==
    /\ op = "GrantOk"
    /\ replug_backs # {}
    /\ \E r \in reqs : r.kind = "ReplugAll" /\ r.services = Values(services)
    /\ Queued(cmd_rx, "Plug") # {}

\* C29: a Keepalive is sent only when no Replug-all of the lease is still
\* waiting or unanswered: under a lease the Replug-alls follow one another
\* from the Grant's success until one succeeds, so a replug slot that is not
\* empty means that none has succeeded yet.
C29_Step ==
    op' = "KeepaliveDelay" /\ DOMAIN services # {} =>
        /\ replug_future = None
        /\ replug_backs = {}
C29_ReplugBeforeKeepalive == [][C29_Step]_vars

\* C30: the success of a Replug-all empties the replug slot and resolves every
\* parked ack, and nothing else, with Ok; answered with the lease id the keeper
\* holds it leaves the lease, answered with another it puts that id in the
\* lease and leaves the lease's other fields; services and the other two
\* slots stay.
C30_Step ==
    op' = "ReplugOk" =>
        /\ replug_future' = None
        /\ replug_backs' = {}
        /\ resolved' = {[tx |-> tx, result |-> "Ok"] : tx \in ParkedAcks}
        /\ reqs' = {}
        /\ UNCHANGED <<services, lease_future, lease_keep_future, endpoint, started>>
        /\ ReplugOk => lease_result' = lease_result
        /\ ReplugOkRenewed =>
              lease_result' = {[l EXCEPT !.lease_id = NewLease] : l \in lease_result}
C30_ReplugSuccess == [][C30_Step]_vars
C30_Witness ==
    /\ op = "ReplugOk"
    /\ resolved # {}
    /\ \E l \in lease_result, f \in lease_keep_future :
          f.phase = "sleep" /\ f.lease_id # l.lease_id

\* C31: every key with a parked ack is a key of services.
C31_PendingRegistered == replug_backs \subseteq DOMAIN services
C31_Witness ==
    /\ op = "ReplugNotPermitted"
    /\ resolved # {}
    /\ replug_backs # {}
    /\ replug_backs # DOMAIN services

\* C32: while the agent runs, a keeper that is not started holds no lease and
\* its three slots are empty; a started keeper has a Grant in its slot or
\* holds a lease, and not both; a Keepalive or a Replug-all is in its slot
\* only while a lease is held.
C32_NotStarted ==
    ~started => lease_result = None /\ lease_future = None
                /\ replug_future = None /\ lease_keep_future = None
C32_GrantOrLease == started => (IsSome(lease_future) <=> ~IsSome(lease_result))
C32_SlotsUnderLease ==
    IsSome(lease_keep_future) \/ IsSome(replug_future) => IsSome(lease_result)
C32_LeaseAndSlots ==
    pc = "running" => C32_NotStarted /\ C32_GrantOrLease /\ C32_SlotsUnderLease

C32_Witness ==
    /\ pc = "running"
    /\ started
    /\ IsSome(lease_result)
    /\ IsSome(replug_future)
    /\ IsSome(lease_keep_future)
    /\ op = "KeepaliveErr"

\* C33: while the agent runs and is not closing, a lease that is held has its
\* Keepalive in the keepalive slot, waiting for its time or sent.
C33_LeaseKept ==
    pc = "running" /\ ~closing =>
        \A l \in lease_result :
            /\ IsSome(lease_keep_future)
            /\ \A f \in lease_keep_future : f.phase = "sleep" => f.lease_id = l.lease_id

\* C34: no Plug-one and no Replug-all is issued with a lease id for which the
\* keeper has issued a RevokeLease.
C34_NoRevokedLease ==
    \A r \in reqs : r.kind \in {"PlugOne", "ReplugAll"} => r.lease_id \notin revoked

\* C35: a Keepalive is sent with the lease id the keeper holds when it is sent.
C35_ActiveLeaseKept ==
    op = "KeepaliveDelay" =>
        \A r \in reqs : r.kind = "Keepalive" =>
            \E l \in lease_result : r.lease_id = l.lease_id

\* C36: the end of a Plug-one with an error that can be retried resolves the
\* plug() future of that task with the error and does nothing else: services,
\* the parked acks, the lease, the slots and the channel stay and no request
\* is issued.  A Plug-one is issued only by the step that processes a Plug.
C36_Retryable == {e \in RequestErrors : can_retry(e)}
C36_Step ==
    /\ op' = "PlugOneDone" =>
          \A x \in resolved' : x.result \in {AckErr(e) : e \in C36_Retryable} =>
              /\ x.tx.from = "task"
              /\ resolved' = {x}
              /\ BagIn(x.tx.key, plug_tasks)
              /\ plug_tasks' = plug_tasks (-) SetToBag({x.tx.key})
              /\ reqs' = {}
              /\ UNCHANGED <<services, replug_backs, lease_result, lease_future,
                             replug_future, lease_keep_future, cmd_rx, started>>
    /\ (\E r \in reqs' : r.kind = "PlugOne") => op' = "Plug"
C36_RetryableFailure == [][C36_Step]_vars
C36_Witness ==
    /\ op = "PlugOneDone"
    /\ \E x \in resolved : x.result = "SYSTEM_ERROR" /\ x.tx.key \in DOMAIN services
    /\ IsSome(lease_result)

\* C37: the agent exits only in the step that processes a RevokeAndClose.
\* After the caller has dropped the ServiceKeeper the channel still has the
\* task's own sender: the receive loop finds it Pending, never closed, and the
\* agent goes on with its futures.
C37_Step ==
    /\ pc = "running" /\ pc' = "exited" => op' = "RevokeAndClose"
    /\ pc = "running" /\ op' \in {"Pending", "None"} => pc' = "running" /\ polling' = "futures"
C37_OnlyClose == [][C37_Step]_vars
C37_Witness ==
    /\ ~keeper
    /\ pc = "running"
    /\ cmd_rx = <<>>
    /\ op = "KeepaliveOk"
    /\ IsSome(lease_result)

\* C38: last_revision is the revision of the last value the closure produced
\* with a revision above 0, and the revision given to spawn if there was none:
\* a step that takes a value with a revision above 0 stores it, lower or not,
\* and every other step leaves last_revision.  The task has one future, the
\* closure's or the back-off sleep, and until the task ends the closure's
\* future is the call made with last_revision.
C38_Step ==
    IF wop' = "value" /\ Len(produced') = Len(produced) + 1
       /\ produced'[Len(produced')] > 0
    THEN last_revision' = Some(produced'[Len(produced')])
    ELSE UNCHANGED last_revision
C38_Call ==
    /\ watch_future.kind \in {"watch", "sleep"}
    /\ wpc # "done" /\ watch_future.kind = "watch" =>
          watch_future = WatchCall(last_revision)
C38_LastRevision == [][C38_Step]_vars /\ []C38_Call
C38_Witness ==
    /\ Len(produced) = 3
    /\ produced[1] > produced[2]
    /\ produced[2] > 0
    /\ produced[3] = 0
    /\ last_revision = Some(produced[2])
    /\ watch_future = WatchCall(last_revision)
    /\ wpc # "done"

\* C39: a Replug-all refused with NotPermitted for service names none of which
\* is registered (or for none at all) leaves services and the parked acks and
\* resolves nothing; while services is not empty the Replug-all with all of
\* services is sent again in the same step, without a sleep, and with services
\* empty the replug slot is left empty.
C39_Names == {k[1] : k \in DOMAIN services}
C39_Refused(S) == S \cap C39_Names = {} /\ ReplugErr(NotPermittedError(S))
C39_Step ==
    op' = "ReplugNotPermitted" => \A S \in SUBSET ServiceNames :
        C39_Refused(S) =>
            /\ UNCHANGED <<services, replug_backs, lease_result>>
            /\ resolved' = {}
            /\ FullReplugIfAny
            /\ DOMAIN services # {} => Sent(replug_future')
            /\ DOMAIN services = {} => replug_future' = None
C39_NotPermittedRepeats == [][C39_Step]_vars
\* C39 as stated: the Replug-all is always sent again.
C39_AsStated ==
    [][op' = "ReplugNotPermitted" => \A S \in SUBSET ServiceNames :
          C39_Refused(S) =>
              /\ UNCHANGED <<services, replug_backs>>
              /\ OneFullReplug
              /\ Sent(replug_future')]_vars
C39_Witness ==
    /\ op = "ReplugNotPermitted"
    /\ resolved = {}
    /\ DOMAIN services # {}
    /\ replug_backs # {}
    /\ \E r \in reqs : r.kind = "ReplugAll" /\ r.services = Values(services)
    /\ Sent(replug_future)


\* C40: an Unplug processed while a Plug-one request of the same key is in
\* flight leaves that request in flight (no task is cancelled and no ack of a
\* task is resolved by the Unplug, which only issues the UnplugService when the
\* key was registered); the request can then end with the server's Ok, its ack
\* resolves Ok, and the key stays out of `services` while the lease is kept.
C40_Unplugged ==
    op' = "Unplug" /\ cmd_rx # <<>> =>
        LET key == Head(cmd_rx).key IN
        /\ plug_tasks' = plug_tasks
        /\ \A a \in resolved' : a.tx.from # "task"
        /\ key \notin DOMAIN services'
        /\ key \in DOMAIN services /\ started => UnplugReq(key, endpoint) \in reqs'
C40_Ended ==
    op' = "PlugOneDone" =>
        \E key \in Keys :
            /\ BagIn(key, plug_tasks)
            /\ plug_tasks' = plug_tasks (-) SetToBag({key})
            /\ resolved' = {[tx |-> Ack("task", key), result |-> "Ok"]}
            /\ reqs' = {}
            /\ UNCHANGED <<services, replug_backs, lease_result>>
C40_PlugOneOutlivesUnplug == [][C40_Unplugged /\ C40_Ended]_vars
C40_Witness ==
    /\ op = "PlugOneDone"
    /\ pc = "running"
    /\ IsSome(lease_result)
    /\ \A l \in lease_result : l.lease_id \notin revoked
    /\ \E key \in Keys :
          /\ key \notin DOMAIN services
          /\ resolved = {[tx |-> Ack("task", key), result |-> "Ok"]}

====
